---- MODULE Spec2Model ----
(***************************************************************************)
(* Unwind info generation (.eh_frame) of rustc_codegen_cranelift:          *)
(* src/debuginfo/unwind.rs, struct UnwindContext.                          *)
(*                                                                         *)
(* One UnwindContext is followed from construction (new) through its       *)
(* add_function calls to its terminal call (emit or register_jit).  The    *)
(* frame table is serialized to bytes, entry by entry, each entry a 4-byte *)
(* length followed by its body, so that the walk of register_jit and the   *)
(* decoding of the emitted section work on bytes.                          *)
(***************************************************************************)
EXTENDS Integers, Sequences, FiniteSets, TLC

VARIABLES
    pc,               \* "start" | "live" | "consumed" | "panicked"
    platform,         \* cfg of the build: "windows" | "macos" | "linux"
    pic_eh_frame,     \* the flag given to new
    endian,           \* UnwindContext.endian
    cies,             \* UnwindContext.frame_table: its CIEs
    fdes,             \* UnwindContext.frame_table: its (CieId, FDE) pairs
    cie_id,           \* UnwindContext.cie_id: <<>> (None) or <<i>>, i an index of cies
    module_imports,   \* the functions the module declares with Linkage::Import
    data_objects,     \* the module's data objects, by DataId
    product_sections, \* debug sections added to the ObjectProduct
    product_relocs,   \* debug relocations added to the ObjectProduct
    jit_buffer,       \* the buffer register_jit builds (<<>> while there is none)
    jit_freed,        \* whether that buffer has been dropped
    registered,       \* the arguments of the __register_frame calls, as
                      \* offsets from the start of jit_buffer
    log               \* the operations performed on the context, in order

vars == <<pc, platform, pic_eh_frame, endian, cies, fdes, cie_id, module_imports,
          data_objects, product_sections, product_relocs, jit_buffer,
          jit_freed, registered, log>>

\* ---------------------------------------------------------------- bounds
\* add_function calls made on one context
MaxAdds == 2
\* functions the module declares before the context is built
NumFuncs == 2

FuncIds == 1..NumFuncs
Platforms == {"windows", "macos", "linux"}
Endians == {"Little", "Big"}
\* what create_unwind_info yields: nothing, or a variant of UnwindInfo
UnwindInfos == {"None", "SystemV", "WindowsX64", "Other"}

\* ------------------------------------------------------------- constants
DW_EH_PE_absptr == 0
DW_EH_PE_pcrel == 16
DW_EH_PE_sdata4 == 11
\* pointer size of the target, in bytes
address_size == 8

RECURSIVE BitOr(_, _)
BitOr(a, b) ==
    IF a = 0 THEN b
    ELSE IF b = 0 THEN a
    ELSE (IF a % 2 = 1 \/ b % 2 = 1 THEN 1 ELSE 0) + 2 * BitOr(a \div 2, b \div 2)

pcrel_sdata4 == BitOr(DW_EH_PE_pcrel, DW_EH_PE_sdata4)

Last(s) == s[Len(s)]

\* ------------------------------------------------------ module contents
\* The linkage name of a declared function, as bytes: "f", "ff", ...
linkage_name(func_id) == [i \in 1..func_id |-> 102]

\* FuncId that declare_function returns for the personality routine
personality_id == NumFuncs + 1

address_for_func(func_id) == [kind |-> "func", id |-> func_id]
address_for_data(data_id) == [kind |-> "data", id |-> data_id]

\* ------------------------------------------------------------------ new
\* The pointer encoding new selects from the position-independence flag.
ptr_encoding_AlwaysPcrel(pic) == pcrel_sdata4

ptr_encoding(pic) == IF pic THEN pcrel_sdata4 ELSE DW_EH_PE_absptr

\* The encoding under which new stores the personality routine's address.
personality_encoding(pic) == pcrel_sdata4

new(has_cie, pic, e) ==
    /\ pc = "start"
    /\ pic_eh_frame' = pic
    /\ endian' = e
    /\ IF has_cie
       THEN /\ module_imports' = module_imports \cup
                {[name |-> "rust_eh_personality", id |-> personality_id]}
            /\ cies' = <<[fde_address_encoding |-> ptr_encoding(pic),
                          lsda_encoding |-> ptr_encoding(pic),
                          personality |-> [enc |-> personality_encoding(pic),
                                           addr |-> address_for_func(personality_id)]]>>
            /\ cie_id' = <<1>>
       ELSE /\ cie_id' = <<>>
            /\ UNCHANGED <<module_imports, cies>>
    /\ pc' = "live"
    /\ log' = Append(log, [op |-> "new", func |-> 0, info |-> "None", outcome |-> "ok"])
    /\ UNCHANGED <<platform, fdes, data_objects, product_sections, product_relocs,
                   jit_buffer, jit_freed, registered>>

\* --------------------------------------------------------- add_function
\* The contents add_function gives the LSDA data object of a function.
lsda_contents_NoTerminator(func_id) == linkage_name(func_id)

lsda_contents(func_id) == linkage_name(func_id) \o <<0>>

AddEntry(func_id, info, outcome) ==
    [op |-> "add_function", func |-> func_id, info |-> info, outcome |-> outcome]

\* The SystemV arm: declare and define the LSDA, then add the FDE under
\* cie_id.unwrap(), which panics when cie_id is None.
add_systemv(func_id, info) ==
    LET lsda == Len(data_objects) + 1
        data == [writable |-> FALSE, tls |-> FALSE, name |-> "None",
                 section |-> ".cranelift_except_table",
                 contents |-> lsda_contents(func_id)]
    IN /\ data_objects' = Append(data_objects, data)
       /\ IF cie_id = <<>>
          THEN /\ pc' = "panicked"
               /\ fdes' = fdes
               /\ log' = Append(log, AddEntry(func_id, info, "panic"))
          ELSE /\ pc' = "live"
               /\ fdes' = Append(fdes, [cie |-> cie_id[1],
                                        address |-> address_for_func(func_id),
                                        lsda |-> address_for_data(lsda)])
               /\ log' = Append(log, AddEntry(func_id, info, "ok"))

add_skip(func_id, info) ==
    /\ pc' = "live"
    /\ log' = Append(log, AddEntry(func_id, info, "ok"))
    /\ UNCHANGED <<fdes, data_objects>>

add_unimplemented(func_id, info) ==
    /\ pc' = "panicked"
    /\ log' = Append(log, AddEntry(func_id, info, "panic"))
    /\ UNCHANGED <<fdes, data_objects>>

NumAdds == Cardinality({i \in 1..Len(log) : log[i].op = "add_function"})

add_function_WindowsAsSystemV(func_id, info) ==
    /\ pc = "live"
    /\ NumAdds < MaxAdds
    /\ CASE info = "None" -> add_skip(func_id, info)
         [] info \in {"SystemV", "WindowsX64"} -> add_systemv(func_id, info)
         [] OTHER -> add_unimplemented(func_id, info)
    /\ UNCHANGED <<platform, pic_eh_frame, endian, cies, cie_id, module_imports,
                   product_sections, product_relocs, jit_buffer, jit_freed, registered>>

add_function_SkipWithoutCie(func_id, info) ==
    /\ pc = "live"
    /\ NumAdds < MaxAdds
    /\ CASE info = "None" -> add_skip(func_id, info)
         [] info = "SystemV" ->
              IF cie_id = <<>> THEN add_skip(func_id, info) ELSE add_systemv(func_id, info)
         [] info = "WindowsX64" -> add_skip(func_id, info)
         [] OTHER -> add_unimplemented(func_id, info)
    /\ UNCHANGED <<platform, pic_eh_frame, endian, cies, cie_id, module_imports,
                   product_sections, product_relocs, jit_buffer, jit_freed, registered>>

add_function_NoFde(func_id, info) ==
    /\ pc = "live"
    /\ NumAdds < MaxAdds
    /\ CASE info = "SystemV" /\ cie_id = <<>> -> add_systemv(func_id, info)
         [] info \in {"None", "SystemV", "WindowsX64"} -> add_skip(func_id, info)
         [] OTHER -> add_unimplemented(func_id, info)
    /\ UNCHANGED <<platform, pic_eh_frame, endian, cies, cie_id, module_imports,
                   product_sections, product_relocs, jit_buffer, jit_freed, registered>>

add_function(func_id, info) ==
    /\ pc = "live"
    /\ NumAdds < MaxAdds
    /\ CASE info = "None" -> add_skip(func_id, info)
         [] info = "SystemV" -> add_systemv(func_id, info)
         [] info = "WindowsX64" -> add_skip(func_id, info)
         [] OTHER -> add_unimplemented(func_id, info)
    /\ UNCHANGED <<platform, pic_eh_frame, endian, cies, cie_id, module_imports,
                   product_sections, product_relocs, jit_buffer, jit_freed, registered>>

\* -------------------------------------------------------- serialization
\* A writer is [bytes, relocs]: the bytes written so far and the relocations
\* recorded for the symbolic addresses among them.
RECURSIVE u_le(_, _)
u_le(val, size) ==
    IF size = 0 THEN <<>> ELSE <<val % 256>> \o u_le(val \div 256, size - 1)

Reverse(s) == [i \in 1..Len(s) |-> s[Len(s) + 1 - i]]

write_udata(val, size, e) ==
    IF e = "Little" THEN u_le(val, size) ELSE Reverse(u_le(val, size))

RECURSIVE from_le(_)
from_le(bs) == IF bs = <<>> THEN 0 ELSE bs[1] + 256 * from_le(Tail(bs))

\* The u32 at byte offset pos (0-based) of buf.  register_jit reads it in
\* the host's byte order, which for JIT-compiled code is the target's.
read_u32(buf, pos, e) ==
    LET bs == SubSeq(buf, pos + 1, pos + 4)
    IN from_le(IF e = "Little" THEN bs ELSE Reverse(bs))

write_at(bytes, pos, bs) ==
    [i \in 1..Len(bytes) |->
        IF i > pos /\ i <= pos + Len(bs) THEN bs[i - pos] ELSE bytes[i]]

zeros(n) == [i \in 1..n |-> 0]

put(w, bs) == [w EXCEPT !.bytes = @ \o bs]

eh_pe_application(eh_pe) == ((eh_pe \div 16) % 8) * 16
eh_pe_format(eh_pe) == eh_pe % 16
eh_pe_size(eh_pe) == IF eh_pe_format(eh_pe) = DW_EH_PE_sdata4 THEN 4 ELSE address_size

\* A symbolic address: zeros of the encoding's size, and a relocation.
write_eh_pointer(w, address, eh_pe) ==
    [bytes |-> w.bytes \o zeros(eh_pe_size(eh_pe)),
     relocs |-> Append(w.relocs,
                  [offset |-> Len(w.bytes), size |-> eh_pe_size(eh_pe), name |-> address,
                   kind |-> IF eh_pe_application(eh_pe) = DW_EH_PE_pcrel
                            THEN "Relative" ELSE "Absolute"])]

set_length(w, length_offset, e) ==
    [w EXCEPT !.bytes = write_at(@, length_offset,
                          write_udata(Len(@) - length_offset - 4, 4, e))]

\* A CIE: length, CIE id (0 in .eh_frame), version, augmentation string
\* "zLP" or "zLPR", then the LSDA encoding, the personality encoding and
\* pointer, and the FDE address encoding when it is not absptr.  The
\* alignment factors and initial instructions of the target's template are
\* not written: the context never reads or changes them.
cie_write(w, cie, e) ==
    LET length_offset == Len(w.bytes)
        w1 == put(w, zeros(4) \o write_udata(0, 4, e) \o <<1>>)
        w2 == put(w1, <<122, 76, 80>>
                      \o (IF cie.fde_address_encoding # DW_EH_PE_absptr THEN <<82>> ELSE <<>>)
                      \o <<0>>)
        w3 == put(w2, <<cie.lsda_encoding, cie.personality.enc>>)
        w4 == write_eh_pointer(w3, cie.personality.addr, cie.personality.enc)
        w5 == IF cie.fde_address_encoding # DW_EH_PE_absptr
              THEN put(w4, <<cie.fde_address_encoding>>) ELSE w4
    IN set_length(w5, length_offset, e)

\* An FDE: length, CIE pointer (distance from this field back to the CIE),
\* the function's address and its LSDA under the CIE's encodings.
fde_write(w, fde, cie_offset, cie, e) ==
    LET length_offset == Len(w.bytes)
        w1 == put(w, zeros(4))
        w2 == put(w1, write_udata(Len(w1.bytes) - cie_offset, 4, e))
        w3 == write_eh_pointer(w2, fde.address, cie.fde_address_encoding)
        w4 == write_eh_pointer(w3, fde.lsda, cie.lsda_encoding)
    IN set_length(w4, length_offset, e)

\* The FDEs from the i-th on; a CIE is written when the first FDE that
\* references it is, so a table without FDEs serializes to nothing.
RECURSIVE write_from(_, _, _, _, _, _)
write_from(w, cs, fs, i, cie_offsets, e) ==
    IF i > Len(fs) THEN w
    ELSE LET c == fs[i].cie
             fresh == cie_offsets[c] = <<>>
             wc == IF fresh THEN cie_write(w, cs[c], e) ELSE w
             offs == IF fresh THEN [cie_offsets EXCEPT ![c] = <<Len(w.bytes)>>]
                     ELSE cie_offsets
         IN write_from(fde_write(wc, fs[i], offs[c][1], cs[c], e), cs, fs, i + 1, offs, e)

write_eh_frame(cs, fs, e) ==
    write_from([bytes |-> <<>>, relocs |-> <<>>], cs, fs, 1,
               [c \in 1..Len(cs) |-> <<>>], e)

\* ----------------------------------------------------------------- emit
EmitEntry == [op |-> "emit", func |-> 0, info |-> "None", outcome |-> "ok"]

add_debug(eh_frame) ==
    /\ product_sections' =
          Append(product_sections, [id |-> ".eh_frame", data |-> eh_frame.bytes])
    /\ product_relocs' = product_relocs \o
          [i \in 1..Len(eh_frame.relocs) |->
              [section |-> Len(product_sections) + 1, reloc |-> eh_frame.relocs[i]]]

emit_NoEmptyCheck ==
    /\ pc = "live"
    /\ add_debug(write_eh_frame(cies, fdes, endian))
    /\ pc' = "consumed"
    /\ log' = Append(log, EmitEntry)
    /\ UNCHANGED <<platform, pic_eh_frame, endian, cies, fdes, cie_id, module_imports,
                   data_objects, jit_buffer, jit_freed, registered>>

emit_ByReference ==
    /\ pc = "live"
    /\ Len(log) < MaxAdds + 3
    /\ LET eh_frame == write_eh_frame(cies, fdes, endian)
       IN IF eh_frame.bytes # <<>>
          THEN add_debug(eh_frame)
          ELSE UNCHANGED <<product_sections, product_relocs>>
    /\ pc' = "live"
    /\ log' = Append(log, EmitEntry)
    /\ UNCHANGED <<platform, pic_eh_frame, endian, cies, fdes, cie_id, module_imports,
                   data_objects, jit_buffer, jit_freed, registered>>

emit ==
    /\ pc = "live"
    /\ LET eh_frame == write_eh_frame(cies, fdes, endian)
       IN IF eh_frame.bytes # <<>>
          THEN add_debug(eh_frame)
          ELSE UNCHANGED <<product_sections, product_relocs>>
    /\ pc' = "consumed"
    /\ log' = Append(log, EmitEntry)
    /\ UNCHANGED <<platform, pic_eh_frame, endian, cies, fdes, cie_id, module_imports,
                   data_objects, jit_buffer, jit_freed, registered>>

\* --------------------------------------------------------- register_jit
jit_buffer_address == 16384

\* Where the JIT module has placed a function or a data object.
jit_address(address) ==
    IF address.kind = "func" THEN 4096 + 64 * address.id ELSE 8192 + 64 * address.id

\* The value a relocation resolves to; write_udata truncates it to the
\* relocation's size (u_le takes a negative value to its two's complement).
reloc_value(r) ==
    IF r.kind = "Relative"
    THEN jit_address(r.name) - (jit_buffer_address + r.offset)
    ELSE jit_address(r.name)

RECURSIVE relocate_from(_, _, _, _)
relocate_from(bytes, relocs, i, e) ==
    IF i > Len(relocs) THEN bytes
    ELSE relocate_from(
            write_at(bytes, relocs[i].offset,
                     write_udata(reloc_value(relocs[i]), relocs[i].size, e)),
            relocs, i + 1, e)

relocate_for_jit(eh_frame, e) == relocate_from(eh_frame.bytes, eh_frame.relocs, 1, e)

\* The macOS walk: from current, register every entry but the one at start.
RECURSIVE walk_frames(_, _, _, _)
walk_frames(buf, current, calls, e) ==
    IF current < Len(buf)
    THEN walk_frames(buf, current + read_u32(buf, current, e) + 4,
                     IF current # 0 THEN Append(calls, current) ELSE calls, e)
    ELSE calls

terminated_NoTerminator(bytes) == bytes

terminated(bytes) == bytes \o <<0, 0, 0, 0>>

RegisterEntry == [op |-> "register_jit", func |-> 0, info |-> "None", outcome |-> "ok"]

register_jit ==
    /\ pc = "live"
    /\ LET eh_frame == write_eh_frame(cies, fdes, endian)
       IN IF platform = "windows" \/ eh_frame.bytes = <<>>
          THEN UNCHANGED <<jit_buffer, jit_freed, registered>>
          ELSE LET buf == terminated(relocate_for_jit(eh_frame, endian))
               IN /\ jit_buffer' = buf
                  /\ jit_freed' = FALSE
                  /\ registered' = IF platform = "macos"
                                   THEN walk_frames(buf, 0, <<>>, endian)
                                   ELSE <<0>>
    /\ pc' = "consumed"
    /\ log' = Append(log, RegisterEntry)
    /\ UNCHANGED <<platform, pic_eh_frame, endian, cies, fdes, cie_id, module_imports,
                   data_objects, product_sections, product_relocs>>

\* ---------------------------------------------------------- specification
\* What the module and the product may hold before the context is built.
other_data == [writable |-> TRUE, tls |-> FALSE, name |-> "static",
               section |-> "", contents |-> <<1>>]
other_section == [id |-> ".debug_info", data |-> <<1>>]

Init ==
    /\ pc = "start"
    /\ platform \in Platforms
    /\ pic_eh_frame = FALSE
    /\ endian = "Little"
    /\ cies = <<>>
    /\ fdes = <<>>
    /\ cie_id = <<>>
    /\ module_imports = {}
    /\ data_objects \in {<<>>, <<other_data>>}
    /\ product_sections \in {<<>>, <<other_section>>}
    /\ product_relocs = <<>>
    /\ jit_buffer = <<>>
    /\ jit_freed = FALSE
    /\ registered = <<>>
    /\ log = <<>>

Next ==
    \/ \E has_cie \in BOOLEAN, pic \in BOOLEAN, e \in Endians : new(has_cie, pic, e)
    \/ \E func_id \in FuncIds, info \in UnwindInfos : add_function(func_id, info)
    \/ emit
    \/ register_jit

Spec == Init /\ [][Next]_vars

\* --------------------------------------------------------------- decoding
\* The entries of a serialized table from byte offset pos on: where each
\* starts, its length field and the u32 after it (0 for a CIE, the CIE
\* pointer for an FDE).  A zero length ends the table.
RECURSIVE parse_entries(_, _, _)
parse_entries(bytes, pos, e) ==
    IF pos + 4 > Len(bytes) \/ read_u32(bytes, pos, e) = 0 THEN <<>>
    ELSE <<[offset |-> pos, length |-> read_u32(bytes, pos, e),
            id |-> read_u32(bytes, pos + 4, e)]>>
         \o parse_entries(bytes, pos + read_u32(bytes, pos, e) + 4, e)

Terminal(i) == log[i].op \in {"emit", "register_jit"}
Done(op) == log # <<>> /\ Last(log).op = op
Constructed == pc # "start"

\* add_function calls that carried System-V style unwind info and returned
SystemVAdds ==
    Cardinality({i \in 1..Len(log) : /\ log[i].op = "add_function"
                                     /\ log[i].info = "SystemV"
                                     /\ log[i].outcome = "ok"})

IsPcrelSdata4(enc) ==
    /\ eh_pe_application(enc) = DW_EH_PE_pcrel
    /\ eh_pe_format(enc) = DW_EH_PE_sdata4

\* ----------------------------------------------------------------- claims
\* C1: an emit on a context whose table holds no function record adds no
\* section and no relocation to the product, with or without a CIE.
C1_EmitOfEmptyTableAddsNothing ==
    [][(log' = Append(log, EmitEntry) /\ fdes = <<>>)
         => UNCHANGED <<product_sections, product_relocs>>]_vars

C1_Witness ==
    /\ Done("emit")
    /\ cie_id # <<>>
    /\ fdes = <<>>
    /\ NumAdds >= 1
    /\ product_sections = <<other_section>>

\* C2: with a CIE and N >= 1 System-V functions added, emit adds exactly one
\* section, which decodes to one CIE followed by N FDEs, each pointing back
\* to that CIE.
C2_EmitOneCieAndNFdes ==
    [][(log' = Append(log, EmitEntry) /\ cie_id # <<>> /\ SystemVAdds >= 1)
         => /\ Len(product_sections') = Len(product_sections) + 1
            /\ SubSeq(product_sections', 1, Len(product_sections)) = product_sections
            /\ LET data == Last(product_sections').data
                   es == parse_entries(data, 0, endian)
               IN /\ Len(es) = SystemVAdds + 1
                  /\ es[1].offset = 0
                  /\ es[1].id = 0
                  /\ \A i \in 2..Len(es) :
                        /\ es[i].id # 0
                        /\ es[i].offset + 4 - es[i].id = es[1].offset
                  /\ es[Len(es)].offset + 4 + es[Len(es)].length = Len(data)]_vars

C2_Witness ==
    /\ Done("emit")
    /\ cie_id # <<>>
    /\ SystemVAdds = 2
    /\ product_sections # <<>>
    /\ Last(product_sections).id = ".eh_frame"

\* C3: every function record references its own data object, which is
\* read-only and anonymous and holds the function's linkage name followed
\* by one zero byte.
C3_LsdaIsNameAndZero ==
    /\ \A i \in 1..Len(fdes) :
          /\ fdes[i].lsda.kind = "data"
          /\ fdes[i].lsda.id \in 1..Len(data_objects)
          /\ LET obj == data_objects[fdes[i].lsda.id]
                 name == linkage_name(fdes[i].address.id)
             IN /\ ~obj.writable
                /\ obj.name = "None"
                /\ Len(obj.contents) = Len(name) + 1
                /\ SubSeq(obj.contents, 1, Len(name)) = name
                /\ obj.contents[Len(name) + 1] = 0
    /\ \A i, j \in 1..Len(fdes) : i # j => fdes[i].lsda.id # fdes[j].lsda.id

C3_Witness ==
    /\ Len(fdes) = 2
    /\ fdes[1].address = fdes[2].address
    /\ Len(data_objects) = 3

\* C4: the CIE's FDE-address and LSDA encodings are PC-relative signed
\* 4-byte when the context was built position-independent and absolute
\* pointer otherwise, in every state after construction.
C4_EncodingsFollowPicFlag ==
    (Constructed /\ cie_id # <<>>) =>
        LET cie == cies[cie_id[1]]
        IN IF pic_eh_frame
           THEN /\ IsPcrelSdata4(cie.fde_address_encoding)
                /\ IsPcrelSdata4(cie.lsda_encoding)
           ELSE /\ cie.fde_address_encoding = DW_EH_PE_absptr
                /\ cie.lsda_encoding = DW_EH_PE_absptr

C4_Witness ==
    /\ Constructed
    /\ cie_id # <<>>
    /\ ~pic_eh_frame
    /\ Len(fdes) = 2
    /\ cies[1].fde_address_encoding = 0

\* C5 as stated: a context without a CIE never produces a function record
\* and never fails.
C5_NoCieNeverFails ==
    (Constructed /\ cie_id = <<>>) => (fdes = <<>> /\ pc # "panicked")

\* C5 as amended: a context without a CIE never produces a function record;
\* add_function on it returns normally for a function with no unwind info
\* or Windows-x64 style info and fails fatally for System-V style info or
\* any other variant.
C5_NoCieNoFdeFailsOnSystemV ==
    (Constructed /\ cie_id = <<>>) =>
        /\ fdes = <<>>
        /\ \A i \in 1..Len(log) :
              log[i].op = "add_function" =>
                 (log[i].outcome = "panic" <=> log[i].info \in {"SystemV", "Other"})
        /\ pc = "panicked" <=> (log # <<>> /\ Last(log).outcome = "panic")

C5_Witness ==
    /\ Constructed
    /\ cie_id = <<>>
    /\ pc = "panicked"
    /\ NumAdds = 2
    /\ log[2].info = "WindowsX64"
    /\ Last(log).info = "SystemV"

\* C6: on macOS register_jit calls __register_frame exactly once per
\* function record, with the start of that record, and with nothing else.
C6_MacosRegistersEachFdeOnce ==
    (platform = "macos" /\ Done("register_jit") /\ fdes # <<>>) =>
        LET es == parse_entries(write_eh_frame(cies, fdes, endian).bytes, 0, endian)
        IN registered = [i \in 1..Len(fdes) |-> es[i + 1].offset]

\* C7: off Windows and macOS register_jit calls __register_frame not at all
\* for an empty table and otherwise once, with the start of a buffer that
\* is the relocated table followed by four zero bytes and is never freed.
C7_OneCallOnTerminatedBuffer ==
    (platform = "linux" /\ Done("register_jit")) =>
        LET eh_frame == write_eh_frame(cies, fdes, endian)
            n == Len(eh_frame.bytes)
        IN IF fdes = <<>>
           THEN registered = <<>>
           ELSE /\ registered = <<0>>
                /\ Len(jit_buffer) = n + 4
                /\ SubSeq(jit_buffer, 1, n) = relocate_for_jit(eh_frame, endian)
                /\ \A i \in n + 1..n + 4 : jit_buffer[i] = 0
                /\ ~jit_freed

C7_Witness ==
    /\ platform = "linux"
    /\ Done("register_jit")
    /\ Len(fdes) = 1
    /\ registered = <<0>>
    /\ endian = "Big"

\* C8: a context sees at most one terminal operation, and that operation is
\* the last one performed on it.
C8_OneTerminalCallAndItIsLast ==
    /\ Cardinality({i \in 1..Len(log) : Terminal(i)}) <= 1
    /\ \A i \in 1..Len(log) : Terminal(i) => i = Len(log)
    /\ pc = "consumed" <=> \E i \in 1..Len(log) : Terminal(i)

C8_Witness ==
    /\ Len(log) = 3
    /\ log[2].op = "add_function"
    /\ Done("emit")
    /\ pc = "consumed"

\* C9: the personality routine's address is stored under the encoding the
\* position-independence flag selects: PC-relative signed 4-byte when the
\* flag is true, absolute pointer when it is false.
C9_PersonalityEncodingFollowsPicFlag ==
    (Constructed /\ cie_id # <<>>) =>
        LET enc == cies[cie_id[1]].personality.enc
        IN IF pic_eh_frame THEN IsPcrelSdata4(enc) ELSE enc = DW_EH_PE_absptr

\* C10: add_function leaves the table and the module's data alone and
\* returns for a function with no unwind info or Windows-x64 style info,
\* panics without appending a record for an unknown variant, and changes
\* the table or the data only for System-V style info.
C10_OnlySystemVChangesTableAndData ==
    [][(Len(log') = Len(log) + 1 /\ Last(log').op = "add_function")
         => LET a == Last(log')
            IN /\ a.info \in {"None", "WindowsX64"} =>
                     /\ a.outcome = "ok"
                     /\ pc' = "live"
                     /\ UNCHANGED <<cies, fdes, data_objects>>
               /\ a.info = "Other" =>
                     /\ a.outcome = "panic"
                     /\ pc' = "panicked"
                     /\ UNCHANGED <<cies, fdes, data_objects>>
               /\ (fdes' # fdes \/ data_objects' # data_objects) =>
                     a.info = "SystemV"]_vars

C10_Witness ==
    /\ Done("add_function")
    /\ Last(log).info = "WindowsX64"
    /\ pc = "live"
    /\ Len(fdes) = 1
    /\ Len(data_objects) = 1

====
